---- MODULE Spec2Model ----
(***************************************************************************)
(* Model of the timeline / caption core of server.js:                      *)
(*   wrapByChars, assEscape, normalizeAndScaleCaptions, msToAssTime and    *)
(*   the POST /render handler (segment planning, crossfade guards,         *)
(*   slideshow / total durations, subtitle cues).                          *)
(*                                                                         *)
(* Conventions                                                             *)
(*  - a JS string is a sequence of one-character strings;                  *)
(*  - a JS number that may be non-finite is a record [fin, v]; v is an     *)
(*    integer.  Raw caption times are counted in 1/Resolution ms so that   *)
(*    Math.round on a raw duration is not the identity; everything the     *)
(*    code has rounded is an integer number of ms;                         *)
(*  - products and quotients the code evaluates in double precision are    *)
(*    evaluated exactly (Math.round(d * factor) is RoundDiv(d*T, total)).  *)
(***************************************************************************)
EXTENDS Integers, Sequences, FiniteSets, TLC

VARIABLES
    pc,              \* position of the /render handler, or of the wrap call
    captions,        \* req.body.captions (raw, untrusted)
    end_card_duration_ms, \* req.body.end_card_duration_ms
    audioMs,         \* probed duration of the main audio (NaN when unknown)
    scaledCaptions,  \* normalizeAndScaleCaptions(captions, audioMs)
    effectiveAudioMs,
    seg,             \* <<seg1, seg2, seg3, seg4>>
    safeSeg,         \* <<safeSeg1, .. , safeSeg4>>
    off,             \* <<off1, off2, off3>> in ms
    slideshowMs,
    endCardDurMs,
    totalMs,
    ass,             \* the Dialogue lines of subs.ass
    text,            \* wrapByChars argument
    maxCharsPerLine, \* wrapByChars argument
    maxLines,        \* wrapByChars argument
    wrapped          \* wrapByChars result

renderVars == <<captions, end_card_duration_ms, audioMs, scaledCaptions,
                effectiveAudioMs, seg, safeSeg, off, slideshowMs,
                endCardDurMs, totalMs, ass>>
wrapVars == <<text, maxCharsPerLine, maxLines, wrapped>>
vars == <<pc, renderVars, wrapVars>>

-----------------------------------------------------------------------------
(* Bounds of the model *)

\* raw caption times are multiples of 1/Resolution ms
Resolution == 4
\* longest raw caption list
MaxCaptions == 8
\* raw caption lists repeat a pattern of at most this many pool entries
MaxPeriod == 2
\* longest text handed to wrapByChars on its own
MaxTextLen == 7
\* largest maxCharsPerLine handed to wrapByChars on its own
MaxBudget == 4
\* largest maxLines handed to wrapByChars on its own
MaxLineCount == 3

-----------------------------------------------------------------------------
(* JS numbers and arithmetic *)

Num(n) == [fin |-> TRUE, v |-> n]
NaN == [fin |-> FALSE, v |-> 0]
IsFinite(x) == x.fin

Max(a, b) == IF a >= b THEN a ELSE b
Min(a, b) == IF a <= b THEN a ELSE b

\* Math.round(a / b) for b > 0: the nearest integer, ties towards +infinity
RoundDiv(a, b) == (2 * a + b) \div (2 * b)

\* Math.floor(a / b) for b > 0
FloorDiv(a, b) == a \div b

-----------------------------------------------------------------------------
(* JS strings *)

SPACE == " "
IsSpace(ch) == ch = SPACE

RECURSIVE TrimLeft(_)
TrimLeft(s) ==
    IF s # <<>> /\ IsSpace(Head(s)) THEN TrimLeft(Tail(s)) ELSE s

RECURSIVE TrimRight(_)
TrimRight(s) ==
    IF s # <<>> /\ IsSpace(s[Len(s)])
    THEN TrimRight(SubSeq(s, 1, Len(s) - 1))
    ELSE s

\* String.prototype.trim
Trim(s) == TrimRight(TrimLeft(s))

\* s.replace(/\s+/g, " ")
RECURSIVE CollapseSpaces(_)
CollapseSpaces(s) ==
    IF s = <<>> THEN <<>>
    ELSE IF IsSpace(Head(s))
         THEN <<SPACE>> \o CollapseSpaces(TrimLeft(s))
         ELSE <<Head(s)>> \o CollapseSpaces(Tail(s))

\* s.split(" ") : the pieces between single spaces (empty pieces included)
RECURSIVE SplitFrom(_, _, _)
SplitFrom(s, k, piece) ==
    IF k > Len(s) THEN <<piece>>
    ELSE IF s[k] = SPACE
         THEN <<piece>> \o SplitFrom(s, k + 1, <<>>)
         ELSE SplitFrom(s, k + 1, Append(piece, s[k]))

Split(s) == SplitFrom(s, 1, <<>>)

\* pieces.join(sep)
RECURSIVE Join(_, _)
Join(pieces, sep) ==
    IF pieces = <<>> THEN <<>>
    ELSE IF Len(pieces) = 1 THEN pieces[1]
    ELSE pieces[1] \o sep \o Join(Tail(pieces), sep)

\* arr.filter(Boolean) on an array of strings
FilterNonEmpty(pieces) == SelectSeq(pieces, LAMBDA p : p # <<>>)

\* the ASS forced line break, the two characters \N
LineBreak == <<"\\", "N">>

\* one character of assEscape's last three replaces
EscapeChar(ch) ==
    IF ch = "\\" THEN <<"\\", "\\">>
    ELSE IF ch = "{" THEN <<"\\", "{">>
    ELSE IF ch = "}" THEN <<"\\", "}">>
    ELSE <<ch>>

RECURSIVE EscapeAll(_)
EscapeAll(s) ==
    IF s = <<>> THEN <<>> ELSE EscapeChar(Head(s)) \o EscapeAll(Tail(s))

assEscape(t) == EscapeAll(Trim(CollapseSpaces(t)))

-----------------------------------------------------------------------------
(* wrapByChars *)

\* WrapLoop letting a line grow one character past the budget
RECURSIVE WrapLoopOverBudget(_, _, _, _, _, _)
WrapLoopOverBudget(words, k, lines, cur, maxC, maxL) ==
    IF k > Len(words) THEN [lines |-> lines, cur |-> cur]
    ELSE LET w == words[k]
             cand == IF cur # <<>> THEN cur \o <<SPACE>> \o w ELSE w
         IN  IF Len(cand) <= maxC + 1
             THEN WrapLoopOverBudget(words, k + 1, lines, cand, maxC, maxL)
             ELSE LET pushed == IF cur # <<>> THEN Append(lines, cur) ELSE lines
                  IN  IF Len(pushed) >= maxL - 1
                      THEN [lines |-> pushed, cur |-> w]
                      ELSE WrapLoopOverBudget(words, k + 1, pushed, w, maxC, maxL)

\* the `for (const w of words)` loop; k is the index of the next word
RECURSIVE WrapLoop(_, _, _, _, _, _)
WrapLoop(words, k, lines, cur, maxC, maxL) ==
    IF k > Len(words) THEN [lines |-> lines, cur |-> cur]
    ELSE LET w == words[k]
             cand == IF cur # <<>> THEN cur \o <<SPACE>> \o w ELSE w
         IN  IF Len(cand) <= maxC
             THEN WrapLoop(words, k + 1, lines, cand, maxC, maxL)
             ELSE LET pushed == IF cur # <<>> THEN Append(lines, cur) ELSE lines
                  IN  IF Len(pushed) >= maxL - 1
                      THEN [lines |-> pushed, cur |-> w]
                      ELSE WrapLoop(words, k + 1, pushed, w, maxC, maxL)

\* the `for (const w of restWords)` loop that fills the last line
RECURSIVE FillLast(_, _, _, _)
FillLast(last, restWords, k, maxC) ==
    IF k > Len(restWords) THEN last
    ELSE LET cand == last \o <<SPACE>> \o restWords[k]
         IN  IF Len(cand) <= maxC
             THEN FillLast(cand, restWords, k + 1, maxC)
             ELSE last

\* WrapLines counting only the pushed lines as used, not the words of cur
WrapLinesRecountsCur(t, maxC, maxL) ==
    LET words == Split(t)
        loop == WrapLoop(words, 1, <<>>, <<>>, maxC, maxL)
        lines == loop.lines
        cur == loop.cur
    IN  IF cur # <<>> /\ Len(lines) < maxL
        THEN LET usedWords == Len(FilterNonEmpty(Split(Join(lines, <<SPACE>>))))
                 remaining == Trim(Join(SubSeq(words, usedWords + 1, Len(words)),
                                        <<SPACE>>))
                 last == IF remaining # <<>>
                         THEN FillLast(cur, Split(remaining), 1, maxC)
                         ELSE cur
             IN  Append(lines, last)
        ELSE lines

\* the array `lines` when wrapByChars reaches its last two statements
WrapLines(t, maxC, maxL) ==
    LET words == Split(t)
        loop == WrapLoop(words, 1, <<>>, <<>>, maxC, maxL)
        lines == loop.lines
        cur == loop.cur
    IN  IF cur # <<>> /\ Len(lines) < maxL
        THEN LET usedWords == Len(FilterNonEmpty(Split(Join(lines, <<SPACE>>))))
                              + Len(FilterNonEmpty(Split(cur)))
                 remaining == Trim(Join(SubSeq(words, usedWords + 1, Len(words)),
                                        <<SPACE>>))
                 last == IF remaining # <<>>
                         THEN FillLast(cur, Split(remaining), 1, maxC)
                         ELSE cur
             IN  Append(lines, last)
        ELSE lines

wrapByChars(txt, maxC, maxL) ==
    LET t == Trim(CollapseSpaces(txt))
    IN  IF t = <<>> THEN <<>>
        ELSE LET lines == WrapLines(t, maxC, maxL)
             IN  IF lines = <<>> THEN t ELSE Join(lines, LineBreak)

-----------------------------------------------------------------------------
(* normalizeAndScaleCaptions *)

MinSegDefault == 600
MinSegLowest == 80

\* KeepsCaption rejecting only end < start
KeepsCaptionZeroLong(c) ==
    /\ IsFinite(c.start_ms)
    /\ IsFinite(c.end_ms)
    /\ ~(c.end_ms.v < c.start_ms.v)
    /\ Trim(c.text) # <<>>

\* the test of the filter loop: the caption is kept
KeepsCaption(c) ==
    /\ IsFinite(c.start_ms)
    /\ IsFinite(c.end_ms)
    /\ ~(c.end_ms.v <= c.start_ms.v)
    /\ Trim(c.text) # <<>>

\* the array `items`; dur_ms is still in 1/Resolution ms
RECURSIVE Items(_)
Items(caps) ==
    IF caps = <<>> THEN <<>>
    ELSE LET c == Head(caps)
         IN  IF KeepsCaption(c)
             THEN <<[dur_ms |-> c.end_ms.v - c.start_ms.v, text |-> Trim(c.text)]>>
                  \o Items(Tail(caps))
             ELSE Items(Tail(caps))

\* Math.max(1, Math.round(it.dur_ms))
RoundedDur(it) == Max(1, RoundDiv(it.dur_ms, Resolution))

\* the back-to-back layout used when the audio duration is unknown
RECURSIVE LayoutUnscaled(_, _)
LayoutUnscaled(items, cur) ==
    IF items = <<>> THEN <<>>
    ELSE LET dur == RoundedDur(Head(items))
         IN  <<[start_ms |-> cur, end_ms |-> cur + dur, text |-> Head(items).text]>>
             \o LayoutUnscaled(Tail(items), cur + dur)

RECURSIVE SumRounded(_)
SumRounded(items) ==
    IF items = <<>> THEN 0 ELSE RoundedDur(Head(items)) + SumRounded(Tail(items))

RECURSIVE SumDur(_)
SumDur(scaled) ==
    IF scaled = <<>> THEN 0 ELSE Head(scaled).dur_ms + SumDur(Tail(scaled))

\* MinSegMs never lowered to what T / n allows
MinSegMsNotLowered(T, n) ==
    LET maxPossibleMin == FloorDiv(T, n)
    IN  IF maxPossibleMin <= 0 THEN MinSegLowest ELSE MinSegDefault

\* minSegMs for target T and n captions
MinSegMs(T, n) ==
    LET maxPossibleMin == FloorDiv(T, n)
    IN  IF maxPossibleMin <= 0 THEN MinSegLowest
        ELSE IF MinSegDefault > maxPossibleMin
             THEN Max(MinSegLowest, maxPossibleMin)
             ELSE MinSegDefault

\* the array `scaled` as first built by items.map
Scaled(items, T) ==
    LET totalDur == SumRounded(items)
        minSegMs == MinSegMs(T, Len(items))
    IN  [i \in 1..Len(items) |->
            [text |-> items[i].text,
             dur_ms |-> Max(minSegMs, RoundDiv(RoundedDur(items[i]) * T, totalDur))]]

\* the array `idx`: indices by dur_ms descending, Array.prototype.sort is stable
RECURSIVE SortedIdx(_, _)
SortedIdx(scaled, rest) ==
    IF rest = {} THEN <<>>
    ELSE LET i == CHOOSE a \in rest :
                    \A b \in rest : \/ scaled[a].dur_ms > scaled[b].dur_ms
                                    \/ /\ scaled[a].dur_ms = scaled[b].dur_ms
                                       /\ a <= b
         IN  <<i>> \o SortedIdx(scaled, rest \ {i})

\* the `for (const i of idx)` loop: reduce towards minSegMs
RECURSIVE ReduceToFloor(_, _, _, _, _)
ReduceToFloor(scaled, idx, k, over, minSegMs) ==
    IF k > Len(idx) \/ over <= 0 THEN [scaled |-> scaled, over |-> over]
    ELSE LET i == idx[k]
             canReduce == Max(0, scaled[i].dur_ms - minSegMs)
             reduceBy == Min(canReduce, over)
         IN  ReduceToFloor([scaled EXCEPT ![i].dur_ms = @ - reduceBy],
                           idx, k + 1, over - reduceBy, minSegMs)

\* the second loop: from the last entry backwards, reduce towards 1 ms
RECURSIVE ReduceToOne(_, _, _)
ReduceToOne(scaled, i, over) ==
    IF i < 1 \/ over <= 0 THEN [scaled |-> scaled, over |-> over]
    ELSE LET canReduce == Max(0, scaled[i].dur_ms - 1)
             reduceBy == Min(canReduce, over)
         IN  ReduceToOne([scaled EXCEPT ![i].dur_ms = @ - reduceBy],
                         i - 1, over - reduceBy)

\* `scaled` and `over` after the first overflow loop (sum > audioMs)
FirstPass(scaled, T, minSegMs) ==
    ReduceToFloor(scaled, SortedIdx(scaled, DOMAIN scaled), 1,
                  SumDur(scaled) - T, minSegMs)

\* `scaled` after the if (sum > audioMs) .. else if (sum < audioMs) statement
Adjusted(scaled, T, minSegMs) ==
    LET sum == SumDur(scaled)
    IN  IF sum > T
        THEN LET p1 == FirstPass(scaled, T, minSegMs)
             IN  IF p1.over > 0
                 THEN ReduceToOne(p1.scaled, Len(scaled), p1.over).scaled
                 ELSE p1.scaled
        ELSE IF sum < T
             THEN [scaled EXCEPT ![Len(scaled)].dur_ms = @ + (T - sum)]
             ELSE scaled

\* the final loop building `out`; i is the index of the next entry
RECURSIVE LayoutScaled(_, _, _, _)
LayoutScaled(scaled, i, cur, T) ==
    IF i > Len(scaled) THEN <<>>
    ELSE LET dur == Max(1, scaled[i].dur_ms)
             end_ms == IF i = Len(scaled) THEN T ELSE cur + dur
         IN  <<[start_ms |-> cur, end_ms |-> end_ms, text |-> scaled[i].text]>>
             \o LayoutScaled(scaled, i + 1, end_ms, T)

normalizeAndScaleCaptions(caps, aMs) ==
    LET items == Items(caps)
    IN  IF items = <<>> THEN <<>>
        ELSE IF ~IsFinite(aMs) \/ aMs.v <= 0 THEN LayoutUnscaled(items, 0)
        ELSE IF SumRounded(items) <= 0 THEN <<>>
        ELSE LET T == aMs.v
                 scaled == Scaled(items, T)
             IN  LayoutScaled(Adjusted(scaled, T, MinSegMs(T, Len(items))), 1, 0, T)

-----------------------------------------------------------------------------
(* POST /render : timing, subtitles and filter arithmetic *)

DefaultAudioMs == 15000
XfadeMs == 300
titleMaxCharsPerLine == 12
titleMaxLines == 6
capMaxCharsPerLine == 18
capMaxLines == 5

\* effectiveAudioMs before the segment timing ("if probe failed, use last
\* caption end as audio")
EffectiveAudio(scaled, aMs) ==
    IF ~IsFinite(aMs) \/ aMs.v <= 0
    THEN LET lastEnd == IF scaled # <<>> THEN scaled[Len(scaled)].end_ms ELSE 0
         IN  IF lastEnd > 0 THEN lastEnd ELSE DefaultAudioMs
    ELSE aMs.v

\* seg1..seg4 and effectiveAudioMs after the segment timing
Segments(scaled, eff) ==
    IF Len(scaled) >= 7
    THEN LET t1 == scaled[1].end_ms
             t3 == scaled[3].end_ms
             t5 == scaled[5].end_ms
             t7 == scaled[7].end_ms
         IN  [seg |-> <<Max(1, t1), Max(1, t3 - t1), Max(1, t5 - t3), Max(1, t7 - t5)>>,
              effectiveAudioMs |-> Max(eff, t7)]
    ELSE LET part == FloorDiv(eff, 4)
             s1 == Max(1, part)
         IN  [seg |-> <<s1, s1, s1, Max(1, eff - s1 - s1 - s1)>>,
              effectiveAudioMs |-> eff]

SlideshowMs(sg) == Max(1, sg[1] + sg[2] + sg[3] + sg[4])

\* Math.max(0, Math.round(Number(end_card_duration_ms) || 0))
EndCardDurMs(x) == Max(0, IF IsFinite(x) THEN x.v ELSE 0)

TotalMs(slideshow, endCard) == slideshow + endCard

\* <<hh, mm, ss, cc>> of the H:MM:SS.CC time
msToAssTime(ms) ==
    LET t == Max(0, ms)
        cs == FloorDiv(t, 10)
    IN  <<FloorDiv(cs, 360000), FloorDiv(cs % 360000, 6000),
          FloorDiv(cs % 6000, 100), cs % 100>>

\* the Dialogue line of caption i
Dialogue(scaled, i) ==
    LET c == scaled[i]
        raw == assEscape(c.text)
    IN  [start |-> msToAssTime(c.start_ms),
         end |-> msToAssTime(c.end_ms),
         style |-> IF i = 1 THEN "Title" ELSE "Caption",
         text |-> IF i = 1
                  THEN wrapByChars(raw, titleMaxCharsPerLine, titleMaxLines)
                  ELSE wrapByChars(raw, capMaxCharsPerLine, capMaxLines)]

Ass(scaled) == [i \in 1..Len(scaled) |-> Dialogue(scaled, i)]

\* the guard of segments 1..3: Math.ceil(xfadeDur * 1000) + 1
GuardMs == XfadeMs + 1

\* SafeSeg guarding to the crossfade duration without the extra millisecond
SafeSegNoMargin(sg) ==
    <<Max(sg[1], XfadeMs), Max(sg[2], XfadeMs), Max(sg[3], XfadeMs), Max(sg[4], 1)>>

SafeSeg(sg) ==
    <<Max(sg[1], GuardMs), Max(sg[2], GuardMs), Max(sg[3], GuardMs), Max(sg[4], 1)>>

\* off1..off3 in ms (the code holds them in seconds and prints three decimals)
Offsets(safe) ==
    <<Max(1, safe[1] - XfadeMs),
      Max(1, safe[1] + safe[2] - 2 * XfadeMs),
      Max(1, safe[1] + safe[2] + safe[3] - 3 * XfadeMs)>>

-----------------------------------------------------------------------------
(* Inputs *)

Chars(n, ch) == [i \in 1..n |-> ch]

\* raw captions a request may carry; times in 1/Resolution ms
CaptionPool ==
    { [start_ms |-> Num(0), end_ms |-> Num(1), text |-> <<"a">>],
      [start_ms |-> Num(2), end_ms |-> Num(100 * Resolution + 4),
       text |-> <<" ", "b", " ", " ", "c", " ">>],
      [start_ms |-> Num(5), end_ms |-> Num(5 + 1000 * Resolution),
       text |-> Chars(8, "a") \o <<" ", "{">> \o Chars(4, "b")],
      [start_ms |-> NaN, end_ms |-> Num(7), text |-> <<"a">>],
      [start_ms |-> Num(9), end_ms |-> Num(9), text |-> <<"b">>],
      [start_ms |-> Num(0), end_ms |-> Num(100), text |-> <<" ", " ">>] }

Patterns == UNION { [1..k -> CaptionPool] : k \in 1..MaxPeriod }

Cycle(p, n) == [i \in 1..n |-> p[((i - 1) % Len(p)) + 1]]

RawLists == { Cycle(p, n) : p \in Patterns, n \in 0..MaxCaptions }

\* results of Math.round(audioSeconds * 1000) for audioSeconds > 0
ProbeResults == {0, 1, 5, 6, 170, 700, 1000, 4000, 8000, 14000}

EndCardInputs == {Num(4000), Num(0 - 500), NaN}

Alphabet == {"a", "b", SPACE}

Texts == UNION { [1..n -> Alphabet] : n \in 0..MaxTextLen }

-----------------------------------------------------------------------------
(* The /render handler *)

NoWrap ==
    /\ text = <<>>
    /\ maxCharsPerLine = 0
    /\ maxLines = 0
    /\ wrapped = <<>>

NoPlan ==
    /\ scaledCaptions = <<>>
    /\ effectiveAudioMs = NaN
    /\ seg = <<0, 0, 0, 0>>
    /\ safeSeg = <<0, 0, 0, 0>>
    /\ off = <<0, 0, 0>>
    /\ slideshowMs = 0
    /\ endCardDurMs = 0
    /\ totalMs = 0
    /\ ass = <<>>

\* the request passed validation and the downloads are done
Init ==
    /\ pc = "probe"
    /\ captions \in RawLists
    /\ end_card_duration_ms \in EndCardInputs
    /\ audioMs = NaN
    /\ NoPlan
    /\ NoWrap

\* ffprobe prints a positive duration
ProbeOk ==
    /\ pc = "probe"
    /\ \E ms \in ProbeResults : audioMs' = Num(ms)
    /\ pc' = "plan"
    /\ UNCHANGED <<captions, end_card_duration_ms, scaledCaptions,
                   effectiveAudioMs, seg, safeSeg, off, slideshowMs,
                   endCardDurMs, totalMs, ass, wrapVars>>

\* ffprobe fails or prints no positive number
ProbeFail ==
    /\ pc = "probe"
    /\ audioMs' = NaN
    /\ pc' = "plan"
    /\ UNCHANGED <<captions, end_card_duration_ms, scaledCaptions,
                   effectiveAudioMs, seg, safeSeg, off, slideshowMs,
                   endCardDurMs, totalMs, ass, wrapVars>>

\* from normalizeAndScaleCaptions to the audio filter, no await in between
BuildPlan ==
    /\ pc = "plan"
    /\ LET scaled == normalizeAndScaleCaptions(captions, audioMs)
           plan == Segments(scaled, EffectiveAudio(scaled, audioMs))
           safe == SafeSeg(plan.seg)
           slideshow == SlideshowMs(plan.seg)
           endCard == EndCardDurMs(end_card_duration_ms)
       IN  /\ scaledCaptions' = scaled
           /\ effectiveAudioMs' = Num(plan.effectiveAudioMs)
           /\ seg' = plan.seg
           /\ slideshowMs' = slideshow
           /\ endCardDurMs' = endCard
           /\ totalMs' = TotalMs(slideshow, endCard)
           /\ ass' = Ass(scaled)
           /\ safeSeg' = safe
           /\ off' = Offsets(safe)
    /\ pc' = "ffmpeg"
    /\ UNCHANGED <<captions, end_card_duration_ms, audioMs, wrapVars>>

Next == ProbeOk \/ ProbeFail \/ BuildPlan

Spec == Init /\ [][Next]_vars

-----------------------------------------------------------------------------
(* wrapByChars on its own *)

InitWrap ==
    /\ pc = "wrap"
    /\ text \in Texts
    /\ maxCharsPerLine \in 1..MaxBudget
    /\ maxLines \in 1..MaxLineCount
    /\ wrapped = <<>>
    /\ captions = <<>>
    /\ end_card_duration_ms = NaN
    /\ audioMs = NaN
    /\ NoPlan

Wrap ==
    /\ pc = "wrap"
    /\ wrapped' = wrapByChars(text, maxCharsPerLine, maxLines)
    /\ pc' = "wrapped"
    /\ UNCHANGED <<renderVars, text, maxCharsPerLine, maxLines>>

NextWrap == Wrap

SpecWrap == InitWrap /\ [][NextWrap]_vars

-----------------------------------------------------------------------------
(* Vocabulary of the properties, stated without the operators above *)

Planned == pc = "ffmpeg"

\* the probe gave a target duration T >= 1
KnownT == IsFinite(audioMs) /\ audioMs.v >= 1

TargetMs == audioMs.v

NonSpaceAt(s) == {k \in 1..Len(s) : s[k] # SPACE}

\* s without its leading and trailing spaces
Strip(s) ==
    IF NonSpaceAt(s) = {} THEN <<>>
    ELSE LET first == CHOOSE k \in NonSpaceAt(s) : \A j \in NonSpaceAt(s) : k <= j
             last == CHOOSE k \in NonSpaceAt(s) : \A j \in NonSpaceAt(s) : k >= j
         IN  SubSeq(s, first, last)

\* a raw caption the normalizer is to keep
ValidRaw(c) ==
    /\ c.start_ms.fin
    /\ c.end_ms.fin
    /\ c.end_ms.v > c.start_ms.v
    /\ NonSpaceAt(c.text) # {}

ValidCaptions == SelectSeq(captions, ValidRaw)

NCaptions == Len(scaledCaptions)

CapDur(i) == scaledCaptions[i].end_ms - scaledCaptions[i].start_ms

RECURSIVE SumCapDur(_)
SumCapDur(n) == IF n = 0 THEN 0 ELSE CapDur(n) + SumCapDur(n - 1)

\* the maximal runs of non-space characters of s, in order
RECURSIVE WordsFrom(_, _, _)
WordsFrom(s, k, word) ==
    IF k > Len(s) THEN (IF word = <<>> THEN <<>> ELSE <<word>>)
    ELSE IF s[k] = SPACE
         THEN (IF word = <<>> THEN <<>> ELSE <<word>>) \o WordsFrom(s, k + 1, <<>>)
         ELSE WordsFrom(s, k + 1, Append(word, s[k]))

WordsOf(s) == WordsFrom(s, 1, <<>>)

\* the pieces of s between forced line breaks
RECURSIVE BreakFrom(_, _, _)
BreakFrom(s, k, piece) ==
    IF k > Len(s) THEN <<piece>>
    ELSE IF k < Len(s) /\ s[k] = "\\" /\ s[k + 1] = "N"
         THEN <<piece>> \o BreakFrom(s, k + 2, <<>>)
         ELSE BreakFrom(s, k + 1, Append(piece, s[k]))

OutLines == IF wrapped = <<>> THEN <<>> ELSE BreakFrom(wrapped, 1, <<>>)

RECURSIVE WordsOfLines(_)
WordsOfLines(ls) ==
    IF ls = <<>> THEN <<>> ELSE WordsOf(Head(ls)) \o WordsOfLines(Tail(ls))

OutWords == WordsOfLines(OutLines)

InWords == WordsOf(text)

IsPrefix(a, b) == Len(a) <= Len(b) /\ SubSeq(b, 1, Len(a)) = a

-----------------------------------------------------------------------------
(* C1 *)

\* C1: for a raw list with at least one valid entry and a known target T >= 1
\* the normalized list starts at 0, ends at T, is contiguous, has non-decreasing
\* start and end times (every end_ms >= its start_ms) and durations summing to T.
C1_ExactTimeline ==
    (Planned /\ KnownT /\ ValidCaptions # <<>>) =>
        /\ NCaptions >= 1
        /\ scaledCaptions[1].start_ms = 0
        /\ scaledCaptions[NCaptions].end_ms = TargetMs
        /\ \A i \in 1..(NCaptions - 1) :
              /\ scaledCaptions[i].end_ms = scaledCaptions[i + 1].start_ms
              /\ scaledCaptions[i].start_ms <= scaledCaptions[i + 1].start_ms
              /\ scaledCaptions[i].end_ms <= scaledCaptions[i + 1].end_ms
        /\ \A i \in 1..NCaptions : scaledCaptions[i].end_ms >= scaledCaptions[i].start_ms
        /\ SumCapDur(NCaptions) = TargetMs

-----------------------------------------------------------------------------
(* C2 *)

\* a normalized list handed back as a request's caption list
AsRaw(list) ==
    [i \in 1..Len(list) |->
        [start_ms |-> Num(list[i].start_ms * Resolution),
         end_ms |-> Num(list[i].end_ms * Resolution),
         text |-> list[i].text]]

\* C2: normalizing a non-empty normalized list again against the same known
\* target T returns the same list, entry by entry.
C2_Idempotent ==
    (Planned /\ KnownT /\ scaledCaptions # <<>>) =>
        normalizeAndScaleCaptions(AsRaw(scaledCaptions), audioMs) = scaledCaptions

-----------------------------------------------------------------------------
(* C3 *)

\* C3 as stated: the words of the output lines, in order, are the whole word
\* sequence of the input; nothing is dropped.
C3_NoTextLost ==
    pc = "wrapped" => OutWords = InWords

\* C3 amended: the words of the output lines are a prefix of the input's word
\* sequence, non-empty when the input has a word, and the whole sequence
\* whenever fewer than maxLines lines come out; only a tail can be dropped.
C3_PrefixKept ==
    pc = "wrapped" =>
        /\ IsPrefix(OutWords, InWords)
        /\ InWords # <<>> => OutWords # <<>>
        /\ Len(OutLines) < maxLines => OutWords = InWords
        /\ Len(OutLines) <= maxLines

\* a wrap that fills maxLines >= 2 lines and drops the tail of the text
C3_Witness ==
    /\ pc = "wrapped"
    /\ maxLines >= 2
    /\ Len(OutLines) = maxLines
    /\ Len(OutWords) < Len(InWords)
    /\ Len(OutWords) >= 2

-----------------------------------------------------------------------------
(* C4 *)

\* C4: slideshowDuration is the sum of the four guarded segment durations (the
\* ones the image clips are trimmed to) and totalDuration adds the end card.
C4_SlideshowIsGuardedSum ==
    Planned =>
        /\ slideshowMs = safeSeg[1] + safeSeg[2] + safeSeg[3] + safeSeg[4]
        /\ totalMs = slideshowMs + endCardDurMs

-----------------------------------------------------------------------------
(* C5 *)

\* C5: with at least 7 normalized captions the planner gives 4 segments, each
\* >= 1 ms, whose running sums are the end times of captions 1, 3, 5 and 7.
C5_BoundariesAtCaptionEnds ==
    (Planned /\ NCaptions >= 7) =>
        /\ Len(seg) = 4
        /\ \A k \in 1..4 : seg[k] >= 1
        /\ seg[1] = scaledCaptions[1].end_ms
        /\ seg[1] + seg[2] = scaledCaptions[3].end_ms
        /\ seg[1] + seg[2] + seg[3] = scaledCaptions[5].end_ms
        /\ seg[1] + seg[2] + seg[3] + seg[4] = scaledCaptions[7].end_ms

-----------------------------------------------------------------------------
(* C6 *)

\* sum of the first k guarded durations minus k crossfades, in ms
RawOffset(k) ==
    IF k = 1 THEN safeSeg[1] - 300
    ELSE IF k = 2 THEN safeSeg[1] + safeSeg[2] - 600
    ELSE safeSeg[1] + safeSeg[2] + safeSeg[3] - 900

\* C6: segments 1-3 are raised to at least 301 ms and segment 4 is left as
\* planned; each crossfade offset is then >= 1 ms, so the clamp leaves it
\* unchanged, and the offsets increase strictly.
C6_OffsetsPositiveIncreasing ==
    Planned =>
        /\ \A k \in 1..4 : seg[k] >= 1
        /\ \A k \in 1..3 : safeSeg[k] = (IF seg[k] >= 301 THEN seg[k] ELSE 301)
        /\ safeSeg[4] = seg[4]
        /\ \A k \in 1..3 : RawOffset(k) >= 1 /\ off[k] = RawOffset(k)
        /\ off[1] < off[2]
        /\ off[2] < off[3]

\* all three guards act: every crossfade offset sits 1 ms above the previous
C6_Witness ==
    /\ Planned
    /\ \A k \in 1..3 : seg[k] < 301
    /\ off = <<1, 2, 3>>

-----------------------------------------------------------------------------
(* C7 *)

\* C7: the normalized list has one entry per valid raw caption, with the
\* trimmed texts in input order; it is empty exactly when no raw caption is
\* valid, and then the segments are the equal split and there are no cues.
C7_SilentFilter ==
    Planned =>
        /\ NCaptions = Len(ValidCaptions)
        /\ \A i \in 1..NCaptions :
              scaledCaptions[i].text = Strip(ValidCaptions[i].text)
        /\ (scaledCaptions = <<>>) <=> (\A i \in 1..Len(captions) : ~ValidRaw(captions[i]))
        /\ Len(ass) = NCaptions
        /\ ValidCaptions = <<>> =>
              LET total == IF KnownT THEN TargetMs ELSE 15000
                  part == total \div 4
              IN  /\ ass = <<>>
                  /\ seg[1] = (IF part >= 1 THEN part ELSE 1)
                  /\ seg[2] = seg[1]
                  /\ seg[3] = seg[1]
                  /\ seg[4] = (IF total - 3 * seg[1] >= 1 THEN total - 3 * seg[1] ELSE 1)

\* a request mixing the three kinds of invalid caption with valid ones whose
\* text needs trimming
C7_Witness ==
    /\ Planned
    /\ NCaptions >= 2
    /\ Len(captions) > NCaptions
    /\ \E i \in 1..Len(captions) : ~ValidRaw(captions[i]) /\ captions[i].start_ms.fin
                                   /\ captions[i].end_ms.v <= captions[i].start_ms.v
    /\ \E i \in 1..Len(ValidCaptions) : Strip(ValidCaptions[i].text) # ValidCaptions[i].text

-----------------------------------------------------------------------------
(* C8 *)

\* C8: when no word is longer than maxCharsPerLine, every output line except
\* possibly the last is at most maxCharsPerLine long.
C8_LineLengthBound ==
    (pc = "wrapped" /\ \A k \in 1..Len(InWords) : Len(InWords[k]) <= maxCharsPerLine) =>
        \A i \in 1..(Len(OutLines) - 1) : Len(OutLines[i]) <= maxCharsPerLine

\* several lines, one before the last holding two words and filling the budget
C8_Witness ==
    /\ pc = "wrapped"
    /\ \A k \in 1..Len(InWords) : Len(InWords[k]) <= maxCharsPerLine
    /\ Len(OutLines) >= 2
    /\ \E i \in 1..(Len(OutLines) - 1) :
          Len(OutLines[i]) = maxCharsPerLine /\ Len(WordsOf(OutLines[i])) = 2

-----------------------------------------------------------------------------
(* C9 *)

\* the floor of the claim for target T and n captions
ClaimFloor(T, n) ==
    LET q == T \div n
    IN  IF q >= 600 THEN 600 ELSE IF q >= 80 THEN q ELSE 80

FloorFits == NCaptions >= 1 /\ NCaptions * ClaimFloor(TargetMs, NCaptions) <= TargetMs

\* C9: whenever N * floor <= T every normalized entry lasts at least floor ms:
\* the first overflow pass absorbs the whole overflow, and a deficit goes to
\* the last entry only.
C9_FloorKept ==
    (Planned /\ KnownT /\ FloorFits) =>
        LET T == TargetMs
            fl == ClaimFloor(T, NCaptions)
            scaled == Scaled(Items(captions), T)
            sum == SumDur(scaled)
        IN  /\ \A i \in 1..NCaptions : CapDur(i) >= fl
            /\ sum > T => FirstPass(scaled, T, fl).over = 0
            /\ sum < T => \A i \in 1..(NCaptions - 1) : CapDur(i) = scaled[i].dur_ms

\* an overflow between entries of different and of equal scaled durations that
\* the first pass has to absorb
C9_Witness ==
    /\ Planned
    /\ KnownT
    /\ FloorFits
    /\ NCaptions >= 3
    /\ ClaimFloor(TargetMs, NCaptions) < 600
    /\ SumDur(Scaled(Items(captions), TargetMs)) > TargetMs + ClaimFloor(TargetMs, NCaptions)
    /\ \E i \in 1..NCaptions : CapDur(i) > ClaimFloor(TargetMs, NCaptions)

-----------------------------------------------------------------------------
(* C10 *)

\* C10: the slideshow lasts at least until the end of the last normalized
\* caption, whatever the number of captions.
C10_SlideshowCoversCaptions ==
    (Planned /\ scaledCaptions # <<>>) =>
        slideshowMs >= scaledCaptions[NCaptions].end_ms

====
